---- MODULE Spec2Model ----
(***************************************************************************)
(* The fit/generate contract of the three pipeline plugins of synthcity:   *)
(* SurVAEPlugin (plugin_survae.py), FourierFlowsPlugin (plugin_fflows.py)  *)
(* and TimeVAEPlugin (plugin_timevae.py).  One plugin instance is followed *)
(* through construction, _fit and _generate; every statement of _fit and   *)
(* of the nested _sample is one step, in source order.                     *)
(*                                                                         *)
(* Data are modelled by their shape and provenance: a table has a row      *)
(* count n, a number of time steps (0 for 2-d data), column names (empty   *)
(* for a numpy array) and one cell descriptor per column.  A cell tells    *)
(* which training feature the column holds, the stack of encoders its      *)
(* values have been passed through (rep) and the _generate call that       *)
(* produced it (gen, 0 for training data).                                 *)
(***************************************************************************)
EXTENDS Naturals, Sequences, FiniteSets, TLC

\* ---------------------------------------------------------------- bounds
MaxFits == 2        \* _fit calls on one instance
MaxGenerates == 2   \* _generate calls on one instance
MaxWindow == 2      \* padded sequence length of the training data
MaxCount == 2       \* count argument of _generate

\* ------------------------------------------------------------ data model
Range(s) == {s[i] : i \in 1..Len(s)}

Front(s) == SubSeq(s, 1, Len(s) - 1)

Cell(c, f, i) == [comp |-> c, feat |-> f, idx |-> i, rep |-> <<>>, gen |-> 0]

NaN == Cell("nan", "", 0)

Table(n, steps, names, vals) ==
    [n |-> n, steps |-> steps, names |-> names, vals |-> vals]

NoTable == Table(0, 0, <<>>, <<>>)

\* numpy.asarray(frame): the values without the labels
asarray(t) == [t EXCEPT !.names = <<>>]

\* pandas.DataFrame(data, columns=cols): an array is labelled by position,
\* a frame is re-indexed by name (a name the frame lacks gives a NaN column)
IndexOf(names, c) == CHOOSE i \in 1..Len(names) : names[i] = c

DataFrame(data, cols) ==
    IF data.names = <<>> /\ data.vals # <<>>
    THEN [data EXCEPT !.names = cols]
    ELSE [data EXCEPT !.names = cols,
                      !.vals = [k \in 1..Len(cols) |->
                                  IF cols[k] \in Range(data.names)
                                  THEN data.vals[IndexOf(data.names, cols[k])]
                                  ELSE NaN]]

\* numpy.concatenate([a, b], axis=1)
concatenate(a, b) == Table(a.n, 0, <<>>, a.vals \o b.vals)

\* data[:, :k] and data[:, k:]
ColsBefore(data, k) == [data EXCEPT !.vals = SubSeq(data.vals, 1, k)]

ColsFrom(data, k) == [data EXCEPT !.vals = SubSeq(data.vals, k + 1, Len(data.vals))]

\* frame[name]: one column of a frame
Column(frame, c) ==
    IF c \in Range(frame.names)
    THEN Table(frame.n, 0, <<c>>, <<frame.vals[IndexOf(frame.names, c)]>>)
    ELSE NoTable

\* ------------------------------------------------- encoders and sub-models
\* An attribute holding an object: made = "" while the attribute does not
\* exist, else the method that created the object; madeIn and fit are the
\* numbers of the _fit calls that created and last fitted it (0: none);
\* names and learned are what fitting stored in it.
NoAttributes == [a \in {} |-> ""]

NoObject ==
    [made |-> "", madeIn |-> 0, args |-> NoAttributes, fit |-> 0,
     names |-> <<>>, learned |-> <<>>]

NewObject(by, k, args) == [NoObject EXCEPT !.made = by, !.madeIn = k, !.args = args]

Tag(name, enc) == [enc |-> name, fit |-> enc.fit, inv |-> FALSE]

Encode(tag, c) == [c EXCEPT !.rep = Append(@, tag)]

\* Decoding undoes the last encoding when that was done by the same fitted
\* encoder; anything else leaves values that are in no training representation.
Decode(tag, c) ==
    IF c.rep # <<>> /\ c.rep[Len(c.rep)] = tag
    THEN [c EXCEPT !.rep = Front(@)]
    ELSE [c EXCEPT !.rep = Append(@, [tag EXCEPT !.inv = TRUE])]

EncodedName(f) == f \o ".normalized"

\* TabularEncoder.fit / TimeSeriesTabularEncoder.fit_temporal
EncoderFit(enc, frame, k) == [enc EXCEPT !.fit = k, !.names = frame.names]

\* TabularEncoder.transform and the temporal half of transform_temporal
EncoderTransform(name, enc, frame) ==
    [frame EXCEPT !.names = [i \in 1..Len(frame.names) |-> EncodedName(frame.names[i])],
                  !.vals = [i \in 1..Len(frame.vals) |-> Encode(Tag(name, enc), frame.vals[i])]]

\* the horizons half of transform_temporal: an unlabelled (n, window) array
HorizonsTransform(name, enc, horizons) ==
    [horizons EXCEPT !.vals = [i \in 1..Len(horizons.vals) |->
                                  Encode(Tag(name, enc), horizons.vals[i])]]

\* TabularEncoder.inverse_transform and the temporal half of
\* inverse_transform_temporal: by position, labelled with the fitted names
EncoderInverse(name, enc, frame) ==
    [frame EXCEPT !.names = enc.names,
                  !.vals = [i \in 1..Len(frame.vals) |-> Decode(Tag(name, enc), frame.vals[i])]]

HorizonsInverse(name, enc, horizons) ==
    [horizons EXCEPT !.vals = [i \in 1..Len(horizons.vals) |->
                                  Decode(Tag(name, enc), horizons.vals[i])]]

\* fit of a generative sub-model (static plugin, FourierFlow, auto-encoder,
\* SurvivalPipeline) or of the outcome TimeSeriesModel on the given tables
ModelFit(m, tables, k) == [m EXCEPT !.fit = k, !.learned = tables]

Generated(t, count, g) ==
    [t EXCEPT !.n = count, !.vals = [i \in 1..Len(t.vals) |-> [t.vals[i] EXCEPT !.gen = g]]]

\* generate(count) / sample(count): count rows shaped like the i-th training table
ModelSample(m, i, count, g) == Generated(m.learned[i], count, g)

\* TimeSeriesModel.predict: one output row per input row, shaped like the
\* training target, as an unlabelled array
ModelPredict(m, static, g) == asarray(Generated(m.learned[Len(m.learned)], static.n, g))

\* ----------------------------------------------------------- data loaders
StaticSchemas == {<<"age", "sex">>, <<"sex">>}

TemporalSchemas == {<<"hr", "bp">>, <<"bp">>}

OutcomeSchemas == {<<"y">>, <<"z", "y">>}

\* A DataLoader, by its type() and the schema of what unpack(pad=True) returns;
\* it always has more rows than any count asked of _generate.
Loader(type, static, temporal, outcome, window) ==
    [type |-> type, rows |-> MaxCount + 1, static |-> static, temporal |-> temporal,
     outcome |-> outcome, window |-> window,
     time_to_event_column |-> "time_to_event", event_column |-> "event"]

NoLoader == Loader("", <<>>, <<>>, <<>>, 0)

\* the outcome feature names and the time_to_event/event column names that the
\* info() of a time_series_survival loader may record
SurvivalNames ==
    {[outcome |-> <<"event", "time_to_event">>,
      time_to_event_column |-> "time_to_event", event_column |-> "event"],
     [outcome |-> <<"duration", "status">>,
      time_to_event_column |-> "duration", event_column |-> "status"]}

SurvivalLoader(static, temporal, window, names) ==
    [Loader("time_series_survival", static, temporal, names.outcome, window) EXCEPT
        !.time_to_event_column = names.time_to_event_column,
        !.event_column = names.event_column]

Loaders ==
    {Loader("time_series", s, t, o, w) :
        s \in StaticSchemas, t \in TemporalSchemas, o \in OutcomeSchemas, w \in 1..MaxWindow}
    \cup {Loader("time_series_survival", s, <<"hr", "bp">>, <<"time_to_event", "event">>, w) :
        s \in StaticSchemas, w \in 1..MaxWindow}
    \cup {SurvivalLoader(<<"sex">>, <<"hr", "bp">>, 1, names) : names \in SurvivalNames}
    \cup {Loader("survival_analysis", s, <<>>, <<"time_to_event", "event">>, 0) :
        s \in StaticSchemas}
    \cup {Loader("generic", <<"age", "sex">>, <<>>, <<>>, 0)}

Cells(comp, names) == [i \in 1..Len(names) |-> Cell(comp, names[i], 0)]

\* X.unpack(pad=True) of a time-series loader: every sequence padded to window
unpack_static(X) == Table(X.rows, 0, X.static, Cells("static", X.static))

unpack_temporal(X) == Table(X.rows, X.window, X.temporal, Cells("temporal", X.temporal))

unpack_temporal_horizons(X) ==
    Table(X.rows, 0, <<>>, [i \in 1..X.window |-> Cell("horizon", "", i)])

unpack_outcome(X) == Table(X.rows, 0, X.outcome, Cells("outcome", X.outcome))

\* the T and E of a time_series_survival loader, as pd.Series
unpack_T(X) == Table(X.rows, 0, <<"0">>, <<Cell("outcome", "T", 0)>>)

unpack_E(X) == Table(X.rows, 0, <<"0">>, <<Cell("outcome", "E", 0)>>)

\* pd.concat([a, b], axis=1) followed by the assignment of .columns
concat_named(a, b, cols) == Table(a.n, 0, cols, a.vals \o b.vals)

\* X.info(), recorded as self.data_info by Plugin.fit before it calls _fit
NoInfo ==
    [data_type |-> "", static_features |-> <<>>, temporal_features |-> <<>>,
     outcome_features |-> <<>>, time_to_event_column |-> "", event_column |-> ""]

Info(X) ==
    [data_type |-> X.type, static_features |-> X.static,
     temporal_features |-> X.temporal, outcome_features |-> X.outcome,
     time_to_event_column |-> X.time_to_event_column, event_column |-> X.event_column]

\* ------------------------------------------------------------------ state
VARIABLES
    self,   \* the plugin instance: its attributes
    pc,     \* the statement about to run ("idle" between calls)
    call,   \* the arguments of the running (or last) call
    loc,    \* the local variables of the running (or last) call
    ret,    \* how the last finished call ended
    log,    \* the library calls made by the running (or last) call, in order
    nfit,   \* number of _fit calls started on the instance
    ngen,   \* number of _generate calls started on the instance
    fitted, \* number of the last _fit call that returned (0: none)
    trained \* the loader that call was given

vars == <<self, pc, call, loc, ret, log, nfit, ngen, fitted, trained>>

NoColumns == [set |-> FALSE, cols |-> <<>>]

Columns(names) == [set |-> TRUE, cols |-> names]

\* an instance as Plugin.__init__ leaves it
Blank(kind) ==
    [kind |-> kind, constructed |-> FALSE, cfg |-> NoAttributes,
     static_model |-> NoObject, temporal_model |-> NoObject,
     temporal_encoder |-> NoObject, outcome_encoder |-> NoObject,
     outcome_model |-> NoObject, cov_model |-> NoObject, model |-> NoObject,
     temporal_encoded_columns |-> NoColumns, outcome_encoded_columns |-> NoColumns,
     static_columns |-> NoColumns, data_info |-> NoInfo]

NoLocals ==
    [static |-> NoTable, temporal |-> NoTable, temporal_horizons |-> NoTable,
     outcome |-> NoTable, temporal_enc |-> NoTable, temporal_horizons_enc |-> NoTable,
     static_data_with_horizons |-> NoTable, outcome_enc |-> NoTable,
     temporal_raw |-> NoTable, outcome_raw |-> NoTable]

NoCall == [op |-> "", args |-> NoAttributes, X |-> NoLoader, count |-> 0]

Return(op, status, value) == [op |-> op, status |-> status, value |-> value]

NoReturn == Return("", "", <<>>)

Event(op, obj, o, args) == [op |-> op, obj |-> obj, fit |-> o.fit, args |-> args]

Init ==
    /\ self = Blank("")
    /\ pc = "idle"
    /\ call = NoCall
    /\ loc = NoLocals
    /\ ret = NoReturn
    /\ log = <<>>
    /\ nfit = 0
    /\ ngen = 0
    /\ fitted = 0
    /\ trained = NoLoader

\* ----------------------------------------------------------- constructors
SamplingStrategies ==
    {"none", "imbalanced_censoring", "imbalanced_time_censoring", "imbalanced", ""}

valid_sampling_strategies == {"none", "imbalanced_censoring", "imbalanced_time_censoring"}

Devices == {"cpu", "cuda"}

SurVAEAttributes(tte_strategy, censoring_strategy, uncensoring_model, device) ==
    [tte_strategy |-> tte_strategy, censoring_strategy |-> censoring_strategy,
     uncensoring_model |-> uncensoring_model, device |-> device, kwargs |-> "{}"]

Construct(new, status, args) ==
    /\ pc = "idle"
    /\ ~self.constructed
    /\ self' = [new EXCEPT !.constructed = (status = "ok")]
    /\ call' = [NoCall EXCEPT !.op = "__init__", !.args = args]
    /\ ret' = Return("__init__", status, <<>>)
    /\ loc' = NoLocals
    /\ log' = <<>>
    /\ nfit' = 0
    /\ ngen' = 0
    /\ fitted' = 0
    /\ UNCHANGED <<pc, trained>>

\* SurVAE_init with the SurvivalPipeline built by the constructor
SurVAE_init_eager(dataloader_sampling_strategy, tte_strategy, censoring_strategy, device) ==
    Construct([Blank("survae") EXCEPT
                  !.cfg = SurVAEAttributes(tte_strategy, censoring_strategy,
                                           "survival_function_regression", device),
                  !.model = NewObject("__init__", 0, [method |-> "tvae"])],
              IF dataloader_sampling_strategy \in valid_sampling_strategies
              THEN "ok" ELSE "ValueError",
              [dataloader_sampling_strategy |-> dataloader_sampling_strategy,
               tte_strategy |-> tte_strategy, censoring_strategy |-> censoring_strategy,
               device |-> device])

\* SurVAE_init with the attributes assigned before the strategy is validated
SurVAE_init_assign_first(dataloader_sampling_strategy, tte_strategy, censoring_strategy, device) ==
    Construct([Blank("survae") EXCEPT
                  !.cfg = SurVAEAttributes(tte_strategy, censoring_strategy,
                                           "survival_function_regression", device)],
              IF dataloader_sampling_strategy \in valid_sampling_strategies
              THEN "ok" ELSE "ValueError",
              [dataloader_sampling_strategy |-> dataloader_sampling_strategy,
               tte_strategy |-> tte_strategy, censoring_strategy |-> censoring_strategy,
               device |-> device])

SurVAE_init(dataloader_sampling_strategy, tte_strategy, censoring_strategy, device) ==
    LET args == [dataloader_sampling_strategy |-> dataloader_sampling_strategy,
                 tte_strategy |-> tte_strategy, censoring_strategy |-> censoring_strategy,
                 device |-> device]
    IN IF dataloader_sampling_strategy \notin valid_sampling_strategies
       THEN Construct(Blank("survae"), "ValueError", args)
       ELSE Construct([Blank("survae") EXCEPT !.cfg =
                          SurVAEAttributes(tte_strategy, censoring_strategy,
                                           "survival_function_regression", device)],
                      "ok", args)

SurVAEPlugin ==
    \E s \in SamplingStrategies, t \in {"survival_function", "uncensoring"}, d \in Devices :
        SurVAE_init(s, t, "random", d)

FourierFlows_init(n_iter, static_model, device, encoder_max_clusters) ==
    Construct([Blank("fflows") EXCEPT
                  !.cfg = [static_model_name |-> static_model, device |-> device,
                           train_args |-> [epochs |-> n_iter, batch_size |-> 128,
                                           learning_rate |-> "1e-3", display_step |-> 100]],
                  !.temporal_model =
                      NewObject("__init__", 0, [hidden |-> 100, n_flows |-> 10, FFT |-> TRUE,
                                                flip |-> TRUE, normalize |-> FALSE]),
                  !.static_model =
                      NewObject("__init__", 0, [name |-> static_model, device |-> device]),
                  !.temporal_encoder =
                      NewObject("__init__", 0, [max_clusters |-> encoder_max_clusters]),
                  !.outcome_encoder =
                      NewObject("__init__", 0, [max_clusters |-> encoder_max_clusters])],
              "ok",
              [n_iter |-> n_iter, static_model |-> static_model, device |-> device,
               encoder_max_clusters |-> encoder_max_clusters])

TimeVAEDefaults ==
    [n_iter |-> 1000, decoder_n_layers_hidden |-> 2, decoder_n_units_hidden |-> 150,
     decoder_nonlin |-> "leaky_relu", decoder_nonlin_out_discrete |-> "softmax",
     decoder_nonlin_out_continuous |-> "tanh", decoder_batch_norm |-> FALSE,
     decoder_dropout |-> "0.01", decoder_residual |-> TRUE,
     encoder_n_layers_hidden |-> 3, encoder_n_units_hidden |-> 300,
     encoder_nonlin |-> "leaky_relu", encoder_batch_norm |-> FALSE,
     encoder_dropout |-> "0.1", lr |-> "1e-3", weight_decay |-> "1e-3",
     batch_size |-> 64, n_iter_print |-> 10, random_state |-> 0, clipping_value |-> 0,
     encoder_max_clusters |-> 20, encoder |-> "None", device |-> "cpu", mode |-> "LSTM",
     gamma_penalty |-> 1, moments_penalty |-> 100, embedding_penalty |-> 10]

\* the names of the distributions hyperparameter_space returns
hyperparameter_space ==
    {"n_iter", "decoder_n_layers_hidden", "decoder_n_units_hidden", "decoder_nonlin",
     "decoder_dropout", "encoder_n_layers_hidden", "encoder_n_units_hidden",
     "encoder_nonlin", "encoder_n_iter", "encoder_dropout", "lr", "weight_decay",
     "batch_size", "encoder_max_clusters", "mode"}

\* lines 123-151 of plugin_timevae.py; p holds the keyword arguments of the call
\* over the defaults of the named parameters; a keyword that is no named
\* parameter is taken by **kwargs, which no statement reads
TimeVAE_init(p) ==
    Construct([Blank("timevae") EXCEPT
                  !.cfg = [n_iter |-> p.n_iter, lr |-> p.lr, weight_decay |-> p.weight_decay,
                           decoder_n_layers_hidden |-> p.decoder_n_layers_hidden,
                           decoder_n_units_hidden |-> p.decoder_n_units_hidden,
                           decoder_nonlin |-> p.decoder_nonlin,
                           decoder_nonlin_out_discrete |-> p.decoder_nonlin_out_discrete,
                           decoder_nonlin_out_continuous |-> p.decoder_nonlin_out_continuous,
                           decoder_batch_norm |-> p.decoder_batch_norm,
                           decoder_dropout |-> p.decoder_dropout,
                           decoder_residual |-> p.decoder_residual,
                           encoder_n_layers_hidden |-> p.encoder_n_layers_hidden,
                           encoder_n_units_hidden |-> p.encoder_n_units_hidden,
                           encoder_nonlin |-> p.encoder_nonlin,
                           encoder_batch_norm |-> p.encoder_batch_norm,
                           encoder_dropout |-> p.encoder_dropout,
                           batch_size |-> p.batch_size, n_iter_print |-> p.n_iter_print,
                           random_state |-> p.random_state,
                           clipping_value |-> p.clipping_value, mode |-> p.mode,
                           encoder_max_clusters |-> p.encoder_max_clusters,
                           encoder |-> p.encoder, device |-> p.device,
                           gamma_penalty |-> p.gamma_penalty,
                           moments_penalty |-> p.moments_penalty,
                           embedding_penalty |-> p.embedding_penalty],
                  !.outcome_encoder =
                      NewObject("__init__", 0, [max_clusters |-> p.encoder_max_clusters])],
              "ok", p)

\* TimeVAEPlugin(n_iter=n, encoder_n_iter=e), the values taken from the ranges
\* hyperparameter_space gives them
TimeVAEPlugin ==
    \E n \in {1000, 100}, e \in {1, 5} :
        /\ n = 1000 \/ e = 1
        /\ TimeVAE_init([TimeVAEDefaults EXCEPT !.n_iter = n] @@ [encoder_n_iter |-> e])

FourierFlowsPlugin ==
    \E m \in {"ctgan"} : FourierFlows_init(500, m, "cpu", 10)

\* ------------------------------------------------------- calls and steps
\* Plugin.fit(X): records X.info() as self.data_info, then calls _fit(X)
fit(X) ==
    /\ pc = "idle"
    /\ self.constructed
    /\ nfit < MaxFits
    /\ nfit' = nfit + 1
    /\ self' = [self EXCEPT !.data_info = Info(X)]
    /\ call' = [NoCall EXCEPT !.op = "_fit", !.X = X]
    /\ pc' = self.kind \o "._fit"
    /\ loc' = NoLocals
    /\ log' = <<>>
    /\ ret' = NoReturn
    /\ UNCHANGED <<ngen, fitted, trained>>

\* one statement of the running call: from label at to label next
Step(at, next) ==
    /\ pc = at
    /\ pc' = next
    /\ ret' = NoReturn
    /\ UNCHANGED <<call, nfit, ngen, fitted, trained>>

\* the running call ends with an exception at label at
Raise(at, status) ==
    /\ pc = at
    /\ pc' = "idle"
    /\ ret' = Return(call.op, status, <<>>)
    /\ UNCHANGED <<self, call, loc, log, nfit, ngen, fitted, trained>>

\* the running _fit returns self
ReturnSelf(at) ==
    /\ pc = at
    /\ pc' = "idle"
    /\ ret' = Return(call.op, "ok", <<>>)
    /\ fitted' = nfit
    /\ trained' = call.X
    /\ UNCHANGED <<call, nfit, ngen>>

time_series_types == {"time_series", "time_series_survival"}

\* unpack building the outcome frame with E before T
unpack_E_first(X) ==
    [NoLocals EXCEPT
        !.static = unpack_static(X),
        !.temporal = unpack_temporal(X),
        !.temporal_horizons = unpack_temporal_horizons(X),
        !.outcome = IF X.type = "time_series"
                    THEN unpack_outcome(X)
                    ELSE concat_named(unpack_E(X), unpack_T(X), <<"time_to_event", "event">>)]

\* lines 124-129 of plugin_fflows.py, 201-206 of plugin_timevae.py
unpack(X) ==
    [NoLocals EXCEPT
        !.static = unpack_static(X),
        !.temporal = unpack_temporal(X),
        !.temporal_horizons = unpack_temporal_horizons(X),
        !.outcome = IF X.type = "time_series"
                    THEN unpack_outcome(X)
                    ELSE concat_named(unpack_T(X), unpack_E(X), <<"time_to_event", "event">>)]

\* ------------------------------------------------ FourierFlowsPlugin._fit
\* FFlows_fit_assert going on to transform_temporal without fit_temporal
FFlows_fit_assert_no_encoder_fit ==
    IF call.X.type \in time_series_types
    THEN /\ Step("fflows._fit", "fflows.transform_temporal")
         /\ loc' = unpack(call.X)
         /\ UNCHANGED <<self, log>>
    ELSE Raise("fflows._fit", "AssertionError")

FFlows_fit_assert ==
    IF call.X.type \in time_series_types
    THEN /\ Step("fflows._fit", "fflows.fit_temporal")
         /\ loc' = unpack(call.X)
         /\ UNCHANGED <<self, log>>
    ELSE Raise("fflows._fit", "AssertionError")

FFlows_fit_temporal ==
    /\ Step("fflows.fit_temporal", "fflows.transform_temporal")
    /\ self' = [self EXCEPT !.temporal_encoder = EncoderFit(@, loc.temporal, nfit)]
    /\ log' = Append(log, Event("fit", "temporal_encoder", self'.temporal_encoder,
                                <<loc.temporal, loc.temporal_horizons>>))
    /\ UNCHANGED loc

FFlows_transform_temporal ==
    /\ Step("fflows.transform_temporal", "fflows.static_model_fit")
    /\ loc' = [loc EXCEPT
                  !.temporal_enc =
                      EncoderTransform("temporal_encoder", self.temporal_encoder, loc.temporal),
                  !.temporal_horizons_enc =
                      HorizonsTransform("temporal_encoder", self.temporal_encoder,
                                        loc.temporal_horizons)]
    /\ log' = Append(log, Event("transform", "temporal_encoder", self.temporal_encoder,
                                <<loc.temporal, loc.temporal_horizons>>))
    /\ UNCHANGED self

FFlows_static_model_fit ==
    /\ Step("fflows.static_model_fit", "fflows.temporal_model_fit")
    /\ loc' = [loc EXCEPT !.static_data_with_horizons =
                  concatenate(asarray(loc.static), asarray(loc.temporal_horizons))]
    /\ self' = [self EXCEPT !.static_model =
                  ModelFit(@, <<loc'.static_data_with_horizons>>, nfit)]
    /\ log' = Append(log, Event("fit", "static_model", self'.static_model,
                                <<loc'.static_data_with_horizons>>))

FFlows_temporal_model_fit ==
    /\ Step("fflows.temporal_model_fit", "fflows.outcome_encoder_fit")
    /\ self' = [self EXCEPT !.temporal_model = ModelFit(@, <<loc.temporal_enc>>, nfit)]
    /\ log' = Append(log, Event("fit", "temporal_model", self'.temporal_model,
                                <<loc.temporal_enc>>))
    /\ UNCHANGED loc

FFlows_outcome_encoder_fit ==
    /\ Step("fflows.outcome_encoder_fit", "fflows.outcome_transform")
    /\ self' = [self EXCEPT !.outcome_encoder = EncoderFit(@, loc.outcome, nfit)]
    /\ log' = Append(log, Event("fit", "outcome_encoder", self'.outcome_encoder,
                                <<loc.outcome>>))
    /\ UNCHANGED loc

FFlows_outcome_transform ==
    /\ Step("fflows.outcome_transform", "fflows.outcome_model_new")
    /\ loc' = [loc EXCEPT !.outcome_enc =
                  EncoderTransform("outcome_encoder", self.outcome_encoder, loc.outcome)]
    /\ log' = Append(log, Event("transform", "outcome_encoder", self.outcome_encoder,
                                <<loc.outcome>>))
    /\ UNCHANGED self

FFlows_outcome_model_new ==
    /\ Step("fflows.outcome_model_new", "fflows.outcome_model_fit")
    /\ self' = [self EXCEPT !.outcome_model =
                  NewObject("_fit", nfit,
                            [task_type |-> "regression",
                             n_static_units_in |-> Len(loc.static.vals),
                             n_temporal_units_in |-> Len(loc.temporal.vals),
                             n_temporal_window |-> loc.temporal.steps,
                             output_shape |-> Len(loc.outcome_enc.vals),
                             n_iter |-> self.cfg.train_args.epochs,
                             batch_size |-> self.cfg.train_args.batch_size,
                             lr |-> self.cfg.train_args.learning_rate,
                             device |-> self.cfg.device])]
    /\ UNCHANGED <<loc, log>>

FFlows_outcome_model_fit ==
    /\ Step("fflows.outcome_model_fit", "fflows.store_columns")
    /\ LET args == <<asarray(loc.static), asarray(loc.temporal),
                     asarray(loc.temporal_horizons), asarray(loc.outcome_enc)>>
       IN /\ self' = [self EXCEPT !.outcome_model = ModelFit(@, args, nfit)]
          /\ log' = Append(log, Event("fit", "outcome_model", self'.outcome_model, args))
    /\ UNCHANGED loc

FFlows_store_columns ==
    /\ ReturnSelf("fflows.store_columns")
    /\ self' = [self EXCEPT
                  !.temporal_encoded_columns = Columns(loc.temporal_enc.names),
                  !.outcome_encoded_columns = Columns(loc.outcome_enc.names),
                  !.static_columns = Columns(loc.static.names)]
    /\ UNCHANGED <<loc, log>>

FFlows_fit ==
    \/ FFlows_fit_assert
    \/ FFlows_fit_temporal
    \/ FFlows_transform_temporal
    \/ FFlows_static_model_fit
    \/ FFlows_temporal_model_fit
    \/ FFlows_outcome_encoder_fit
    \/ FFlows_outcome_transform
    \/ FFlows_outcome_model_new
    \/ FFlows_outcome_model_fit
    \/ FFlows_store_columns

\* --------------------------------------- FourierFlowsPlugin._generate
\* _generate(count, ...): hands the nested _sample to
\* _safe_generate_time_series, which calls _sample(count)
generate(count) ==
    /\ pc = "idle"
    /\ self.constructed
    /\ ngen < MaxGenerates
    /\ ngen' = ngen + 1
    /\ call' = [NoCall EXCEPT !.op = "_generate", !.count = count]
    /\ pc' = self.kind \o "._generate"
    /\ loc' = NoLocals
    /\ log' = <<>>
    /\ ret' = NoReturn
    /\ UNCHANGED <<self, nfit, fitted, trained>>

\* _sample returns value
ReturnValue(at, value) ==
    /\ pc = at
    /\ pc' = "idle"
    /\ ret' = Return(call.op, "ok", value)
    /\ UNCHANGED <<self, call, loc, log, nfit, ngen, fitted, trained>>

\* SampleTuple without the time_series_survival branch
SampleTuple_no_survival(info, static, temporal, temporal_horizons, outcome) ==
    <<static, temporal, temporal_horizons, outcome>>

\* lines 230-241 of plugin_fflows.py, 296-307 of plugin_timevae.py
SampleTuple(info, static, temporal, temporal_horizons, outcome) ==
    IF info.data_type = "time_series"
    THEN <<static, temporal, temporal_horizons, outcome>>
    ELSE <<static, temporal, temporal_horizons,
           Column(outcome, info.time_to_event_column),
           Column(outcome, info.event_column)>>

\* StaticSlice taking the last columns instead of the first
StaticSlice_tail(data, static_columns) ==
    ColsFrom(data, Len(data.vals) - Len(static_columns))

StaticSlice(data, static_columns) == ColsBefore(data, Len(static_columns))

\* HorizonsSlice starting one column early
HorizonsSlice_early(data, static_columns) == ColsFrom(data, Len(static_columns) - 1)

HorizonsSlice(data, static_columns) == ColsFrom(data, Len(static_columns))

FFlows_sample_static ==
    IF self.static_model.fit = 0
    THEN Raise("fflows._generate", "RuntimeError")
    ELSE IF ~self.static_columns.set
    THEN Raise("fflows._generate", "AttributeError")
    ELSE /\ Step("fflows._generate", "fflows.sample_temporal")
         /\ LET data == asarray(ModelSample(self.static_model, 1, call.count, ngen))
            IN loc' = [loc EXCEPT
                         !.static_data_with_horizons = data,
                         !.static = DataFrame(StaticSlice(data, self.static_columns.cols),
                                              self.static_columns.cols),
                         !.temporal_horizons_enc =
                             HorizonsSlice(data, self.static_columns.cols)]
         /\ log' = Append(log, Event("generate", "static_model", self.static_model, <<>>))
         /\ UNCHANGED self

FFlows_sample_temporal ==
    /\ Step("fflows.sample_temporal", "fflows.decode_temporal")
    /\ loc' = [loc EXCEPT !.temporal_enc =
                  DataFrame(asarray(ModelSample(self.temporal_model, 1, call.count, ngen)),
                            self.temporal_encoded_columns.cols)]
    /\ log' = Append(log, Event("sample", "temporal_model", self.temporal_model, <<>>))
    /\ UNCHANGED self

\* FFlows_decode_temporal fitting the encoder again, on the sampled data
FFlows_decode_temporal_refit ==
    /\ Step("fflows.decode_temporal", "fflows.predict_outcome")
    /\ self' = [self EXCEPT !.temporal_encoder = EncoderFit(@, loc.temporal_enc, nfit)]
    /\ LET temporal_raw ==
               EncoderInverse("temporal_encoder", self'.temporal_encoder, loc.temporal_enc)
       IN loc' = [loc EXCEPT
                    !.temporal_raw = temporal_raw,
                    !.temporal_horizons =
                        HorizonsInverse("temporal_encoder", self'.temporal_encoder,
                                        loc.temporal_horizons_enc),
                    !.temporal = DataFrame(temporal_raw, self.data_info.temporal_features)]
    /\ log' = Append(log, Event("inverse_transform", "temporal_encoder",
                                self'.temporal_encoder,
                                <<loc.temporal_enc, loc.temporal_horizons_enc>>))

FFlows_decode_temporal ==
    /\ Step("fflows.decode_temporal", "fflows.predict_outcome")
    /\ LET temporal_raw ==
               EncoderInverse("temporal_encoder", self.temporal_encoder, loc.temporal_enc)
       IN loc' = [loc EXCEPT
                    !.temporal_raw = temporal_raw,
                    !.temporal_horizons =
                        HorizonsInverse("temporal_encoder", self.temporal_encoder,
                                        loc.temporal_horizons_enc),
                    !.temporal = DataFrame(temporal_raw, self.data_info.temporal_features)]
    /\ log' = Append(log, Event("inverse_transform", "temporal_encoder",
                                self.temporal_encoder,
                                <<loc.temporal_enc, loc.temporal_horizons_enc>>))
    /\ UNCHANGED self

FFlows_predict_outcome ==
    IF self.outcome_model.made = ""
    THEN Raise("fflows.predict_outcome", "AttributeError")
    ELSE /\ Step("fflows.predict_outcome", "fflows.decode_outcome")
         /\ loc' = [loc EXCEPT !.outcome_enc =
                       DataFrame(ModelPredict(self.outcome_model, asarray(loc.static), ngen),
                                 self.outcome_encoded_columns.cols)]
         /\ log' = Append(log, Event("predict", "outcome_model", self.outcome_model,
                                     <<asarray(loc.static), asarray(loc.temporal_raw),
                                       asarray(loc.temporal_horizons)>>))
         /\ UNCHANGED self

FFlows_decode_outcome ==
    /\ Step("fflows.decode_outcome", "fflows.return")
    /\ LET outcome_raw ==
               EncoderInverse("outcome_encoder", self.outcome_encoder, loc.outcome_enc)
       IN loc' = [loc EXCEPT
                    !.outcome_raw = outcome_raw,
                    !.outcome = DataFrame(outcome_raw, self.data_info.outcome_features),
                    !.static = DataFrame(loc.static, self.data_info.static_features)]
    /\ log' = Append(log, Event("inverse_transform", "outcome_encoder",
                                self.outcome_encoder, <<loc.outcome_enc>>))
    /\ UNCHANGED self

FFlows_sample_return ==
    IF self.data_info.data_type \in time_series_types
    THEN ReturnValue("fflows.return",
                     SampleTuple(self.data_info, loc.static, loc.temporal,
                                 loc.temporal_horizons, loc.outcome))
    ELSE Raise("fflows.return", "RuntimeError")

FFlows_generate ==
    \/ FFlows_sample_static
    \/ FFlows_sample_temporal
    \/ FFlows_decode_temporal
    \/ FFlows_predict_outcome
    \/ FFlows_decode_outcome
    \/ FFlows_sample_return

\* ----------------------------------------------------- TimeVAEPlugin._fit
TimeVAE_fit_assert ==
    IF call.X.type \in time_series_types
    THEN /\ Step("timevae._fit", "timevae.cov_model_new")
         /\ loc' = unpack(call.X)
         /\ UNCHANGED <<self, log>>
    ELSE Raise("timevae._fit", "AssertionError")

\* the keyword arguments of lines 212-235
CovModelArgs(cfg) ==
    [n_iter |-> cfg.n_iter, lr |-> cfg.lr, weight_decay |-> cfg.weight_decay,
     decoder_n_layers_hidden |-> cfg.decoder_n_layers_hidden,
     decoder_n_units_hidden |-> cfg.decoder_n_units_hidden,
     decoder_nonlin |-> cfg.decoder_nonlin,
     decoder_nonlin_out_discrete |-> cfg.decoder_nonlin_out_discrete,
     decoder_nonlin_out_continuous |-> cfg.decoder_nonlin_out_continuous,
     decoder_batch_norm |-> cfg.decoder_batch_norm,
     decoder_dropout |-> cfg.decoder_dropout,
     decoder_residual |-> cfg.decoder_residual,
     encoder_n_layers_hidden |-> cfg.encoder_n_layers_hidden,
     encoder_n_units_hidden |-> cfg.encoder_n_units_hidden,
     encoder_nonlin |-> cfg.encoder_nonlin,
     encoder_batch_norm |-> cfg.encoder_batch_norm,
     encoder_dropout |-> cfg.encoder_dropout,
     batch_size |-> cfg.batch_size, n_iter_print |-> cfg.n_iter_print,
     random_state |-> cfg.random_state, clipping_value |-> cfg.clipping_value,
     mode |-> cfg.mode, encoder_max_clusters |-> cfg.encoder_max_clusters,
     encoder |-> cfg.encoder, device |-> cfg.device]

TimeVAE_cov_model_new ==
    /\ Step("timevae.cov_model_new", "timevae.cov_model_fit")
    /\ self' = [self EXCEPT !.cov_model = NewObject("_fit", nfit, CovModelArgs(self.cfg))]
    /\ UNCHANGED <<loc, log>>

TimeVAE_cov_model_fit ==
    /\ Step("timevae.cov_model_fit", "timevae.outcome_encoder_fit")
    /\ LET args == <<loc.static, loc.temporal, loc.temporal_horizons>>
       IN /\ self' = [self EXCEPT !.cov_model = ModelFit(@, args, nfit)]
          /\ log' = Append(log, Event("fit", "cov_model", self'.cov_model, args))
    /\ UNCHANGED loc

TimeVAE_outcome_encoder_fit ==
    /\ Step("timevae.outcome_encoder_fit", "timevae.outcome_transform")
    /\ self' = [self EXCEPT !.outcome_encoder = EncoderFit(@, loc.outcome, nfit)]
    /\ log' = Append(log, Event("fit", "outcome_encoder", self'.outcome_encoder,
                                <<loc.outcome>>))
    /\ UNCHANGED loc

TimeVAE_outcome_transform ==
    /\ Step("timevae.outcome_transform", "timevae.outcome_model_new")
    /\ loc' = [loc EXCEPT !.outcome_enc =
                  EncoderTransform("outcome_encoder", self.outcome_encoder, loc.outcome)]
    /\ self' = [self EXCEPT !.outcome_encoded_columns = Columns(loc'.outcome_enc.names)]
    /\ log' = Append(log, Event("transform", "outcome_encoder", self.outcome_encoder,
                                <<loc.outcome>>))

\* the keyword arguments of lines 245-267
OutcomeModelArgs(cfg, static, temporal, outcome_enc) ==
    [task_type |-> "regression",
     n_static_units_in |-> Len(static.vals),
     n_temporal_units_in |-> Len(temporal.vals),
     n_temporal_window |-> temporal.steps,
     output_shape |-> Len(outcome_enc.vals),
     n_static_units_hidden |-> cfg.decoder_n_units_hidden,
     n_static_layers_hidden |-> cfg.decoder_n_layers_hidden,
     n_temporal_units_hidden |-> cfg.decoder_n_units_hidden,
     n_temporal_layers_hidden |-> cfg.decoder_n_layers_hidden,
     n_iter |-> cfg.n_iter, mode |-> cfg.mode, n_iter_print |-> cfg.n_iter_print,
     batch_size |-> cfg.batch_size, lr |-> cfg.lr, weight_decay |-> cfg.weight_decay,
     window_size |-> 1, device |-> cfg.device, dropout |-> cfg.decoder_dropout,
     nonlin |-> cfg.decoder_nonlin]

TimeVAE_outcome_model_new ==
    /\ Step("timevae.outcome_model_new", "timevae.outcome_model_fit")
    /\ self' = [self EXCEPT !.outcome_model =
                  NewObject("_fit", nfit,
                            OutcomeModelArgs(self.cfg, loc.static, loc.temporal,
                                             loc.outcome_enc))]
    /\ UNCHANGED <<loc, log>>

TimeVAE_outcome_model_fit ==
    /\ ReturnSelf("timevae.outcome_model_fit")
    /\ LET args == <<asarray(loc.static), asarray(loc.temporal),
                     asarray(loc.temporal_horizons), asarray(loc.outcome_enc)>>
       IN /\ self' = [self EXCEPT !.outcome_model = ModelFit(@, args, nfit)]
          /\ log' = Append(log, Event("fit", "outcome_model", self'.outcome_model, args))
    /\ UNCHANGED loc

TimeVAE_fit ==
    \/ TimeVAE_fit_assert
    \/ TimeVAE_cov_model_new
    \/ TimeVAE_cov_model_fit
    \/ TimeVAE_outcome_encoder_fit
    \/ TimeVAE_outcome_transform
    \/ TimeVAE_outcome_model_new
    \/ TimeVAE_outcome_model_fit

\* ------------------------------------------------ TimeVAEPlugin._generate
TimeVAE_sample_cov ==
    IF self.cov_model.made = ""
    THEN Raise("timevae._generate", "AttributeError")
    ELSE /\ Step("timevae._generate", "timevae.predict_outcome")
         /\ loc' = [loc EXCEPT
                       !.static = ModelSample(self.cov_model, 1, call.count, ngen),
                       !.temporal = ModelSample(self.cov_model, 2, call.count, ngen),
                       !.temporal_horizons = ModelSample(self.cov_model, 3, call.count, ngen)]
         /\ log' = Append(log, Event("generate", "cov_model", self.cov_model, <<>>))
         /\ UNCHANGED self

TimeVAE_predict_outcome ==
    /\ Step("timevae.predict_outcome", "timevae.decode_outcome")
    /\ loc' = [loc EXCEPT !.outcome_enc =
                  DataFrame(ModelPredict(self.outcome_model, asarray(loc.static), ngen),
                            self.outcome_encoded_columns.cols)]
    /\ log' = Append(log, Event("predict", "outcome_model", self.outcome_model,
                                <<asarray(loc.static), asarray(loc.temporal),
                                  asarray(loc.temporal_horizons)>>))
    /\ UNCHANGED self

\* TimeVAE_decode_outcome keeping the decoded column names on the plugin
TimeVAE_decode_outcome_stores ==
    /\ Step("timevae.decode_outcome", "timevae.return")
    /\ LET outcome_raw ==
               EncoderInverse("outcome_encoder", self.outcome_encoder, loc.outcome_enc)
       IN /\ loc' = [loc EXCEPT
                       !.outcome_raw = outcome_raw,
                       !.outcome = DataFrame(outcome_raw, self.data_info.outcome_features)]
          /\ self' = [self EXCEPT !.outcome_encoded_columns = Columns(outcome_raw.names)]
    /\ log' = Append(log, Event("inverse_transform", "outcome_encoder",
                                self.outcome_encoder, <<loc.outcome_enc>>))

TimeVAE_decode_outcome ==
    /\ Step("timevae.decode_outcome", "timevae.return")
    /\ LET outcome_raw ==
               EncoderInverse("outcome_encoder", self.outcome_encoder, loc.outcome_enc)
       IN loc' = [loc EXCEPT
                    !.outcome_raw = outcome_raw,
                    !.outcome = DataFrame(outcome_raw, self.data_info.outcome_features)]
    /\ log' = Append(log, Event("inverse_transform", "outcome_encoder",
                                self.outcome_encoder, <<loc.outcome_enc>>))
    /\ UNCHANGED self

TimeVAE_sample_return ==
    IF self.data_info.data_type \in time_series_types
    THEN ReturnValue("timevae.return",
                     SampleTuple(self.data_info, loc.static, loc.temporal,
                                 loc.temporal_horizons, loc.outcome))
    ELSE Raise("timevae.return", "RuntimeError")

TimeVAE_generate ==
    \/ TimeVAE_sample_cov
    \/ TimeVAE_predict_outcome
    \/ TimeVAE_decode_outcome
    \/ TimeVAE_sample_return

\* ------------------------------------------------------------ SurVAEPlugin
\* the frame of a survival_analysis loader
dataframe(X) ==
    Table(X.rows, 0, X.static \o X.outcome,
          Cells("static", X.static) \o Cells("outcome", X.outcome))

\* SurVAE_fit_assert with the pipeline built before the type is asserted
SurVAE_fit_assert_late ==
    /\ pc = "survae._fit"
    /\ self' = [self EXCEPT !.model =
                  NewObject("_fit", nfit,
                            [method |-> "tvae", strategy |-> self.cfg.tte_strategy,
                             uncensoring_model |-> self.cfg.uncensoring_model,
                             censoring_strategy |-> self.cfg.censoring_strategy,
                             device |-> self.cfg.device, kwargs |-> self.cfg.kwargs])]
    /\ IF call.X.type = "survival_analysis"
       THEN pc' = "survae.model_fit" /\ ret' = NoReturn
       ELSE pc' = "idle" /\ ret' = Return(call.op, "AssertionError", <<>>)
    /\ UNCHANGED <<call, loc, log, nfit, ngen, fitted, trained>>

SurVAE_fit_assert ==
    IF call.X.type = "survival_analysis"
    THEN /\ Step("survae._fit", "survae.model_fit")
         /\ self' = [self EXCEPT !.model =
                       NewObject("_fit", nfit,
                                 [method |-> "tvae", strategy |-> self.cfg.tte_strategy,
                                  uncensoring_model |-> self.cfg.uncensoring_model,
                                  censoring_strategy |-> self.cfg.censoring_strategy,
                                  device |-> self.cfg.device, kwargs |-> self.cfg.kwargs])]
         /\ UNCHANGED <<loc, log>>
    ELSE Raise("survae._fit", "AssertionError")

SurVAE_model_fit ==
    /\ ReturnSelf("survae.model_fit")
    /\ self' = [self EXCEPT !.model = ModelFit(@, <<dataframe(call.X)>>, nfit)]
    /\ log' = Append(log, Event("fit", "model", self'.model, <<dataframe(call.X)>>))
    /\ UNCHANGED loc

\* SurVAE_generate answering with an empty frame while there is no model
SurVAE_generate_empty ==
    IF self.model.made = ""
    THEN ReturnValue("survae._generate", <<NoTable>>)
    ELSE /\ ReturnValue("survae._generate",
                        <<ModelSample(self.model, 1, call.count, ngen)>>)

SurVAE_generate ==
    IF self.model.made = ""
    THEN Raise("survae._generate", "AttributeError")
    ELSE /\ ReturnValue("survae._generate",
                        <<ModelSample(self.model, 1, call.count, ngen)>>)

Next ==
    \/ SurVAEPlugin
    \/ FourierFlowsPlugin
    \/ TimeVAEPlugin
    \/ \E X \in Loaders : fit(X)
    \/ \E count \in 1..MaxCount : generate(count)
    \/ FFlows_fit
    \/ FFlows_generate
    \/ TimeVAE_fit
    \/ TimeVAE_generate
    \/ SurVAE_fit_assert
    \/ SurVAE_model_fit
    \/ SurVAE_generate

Spec == Init /\ [][Next]_vars

\* ------------------------------------------------------------- properties
ObjectNames ==
    {"static_model", "temporal_model", "temporal_encoder", "outcome_encoder",
     "outcome_model", "cov_model", "model"}

EncoderNames == {"temporal_encoder", "outcome_encoder"}

SubModelNames == ObjectNames \ EncoderNames

InFit == call.op = "_fit"

InGenerate == call.op = "_generate"

\* the last call was a _generate of a plugin of this kind and returned a sample
Returned(kind) == ret.op = "_generate" /\ ret.status = "ok" /\ self.kind = kind

Is(e, op, obj) == e.op = op /\ e.obj = obj

Has(op, obj) == \E i \in 1..Len(log) : Is(log[i], op, obj)

\* every (op2, obj2) call of the running call comes after an (op1, obj1) call
Precedes(op1, obj1, op2, obj2) ==
    \A i \in 1..Len(log) :
        Is(log[i], op2, obj2) => \E j \in 1..(i - 1) : Is(log[j], op1, obj1)

\* every inverse transform of a _generate call is done by an encoder that
\* carries the fit of the most recent _fit call that returned
C1_DecodedByFitted ==
    InGenerate =>
        \A i \in 1..Len(log) :
            log[i].op = "inverse_transform" =>
                /\ log[i].obj \in EncoderNames
                /\ fitted > 0
                /\ log[i].fit = fitted
                /\ self[log[i].obj].fit = fitted

\* C1: in _generate of FourierFlowsPlugin and TimeVAEPlugin every inverse
\* transform is done by an encoder that carries the fit of the most recent
\* _fit call that returned, and no step of a _generate call changes any encoder.
C1_EncodersReused ==
    /\ []C1_DecodedByFitted
    /\ [][call'.op = "_generate" => \A e \in EncoderNames : self'[e] = self[e]]_vars

C1_Witness ==
    /\ Returned("fflows")
    /\ fitted = 2
    /\ ngen = 2
    /\ Has("inverse_transform", "temporal_encoder")
    /\ Has("inverse_transform", "outcome_encoder")

\* C2 as stated: an instance on which _fit has not been called holds no encoder
\* and no sub-model, and every object _generate uses was created by _fit.
C2_CreatedDuringFit ==
    /\ (self.constructed /\ nfit = 0) => \A a \in ObjectNames : self[a].made = ""
    /\ InGenerate => \A i \in 1..Len(log) : self[log[i].obj].made = "_fit"

\* the objects a constructor creates, and those only _fit creates
MadeByInit(kind) ==
    CASE kind = "fflows" ->
             {"static_model", "temporal_model", "temporal_encoder", "outcome_encoder"}
      [] kind = "timevae" -> {"outcome_encoder"}
      [] OTHER -> {}

MadeByFit(kind) ==
    CASE kind = "fflows" -> {"outcome_model"}
      [] kind = "timevae" -> {"cov_model", "outcome_model"}
      [] kind = "survae" -> {"model"}
      [] OTHER -> {}

\* C2 amended: encoders and sub-models are fitted during _fit.  Before the
\* first _fit nothing the instance holds is fitted; the constructor has created
\* (unfitted) the static model, temporal model and both encoders of
\* FourierFlowsPlugin and the outcome encoder of TimeVAEPlugin, while
\* SurVAEPlugin.model, the outcome models and TimeVAEPlugin.cov_model exist
\* only once a _fit call has created them; every encoder and sub-model that
\* _generate uses was fitted by a _fit call on the instance.
C2_FittedDuringFit ==
    /\ self.constructed =>
           \A a \in ObjectNames :
               /\ a \in MadeByInit(self.kind) =>
                      self[a].made = "__init__" /\ self[a].madeIn = 0
               /\ a \in MadeByFit(self.kind) =>
                      \/ self[a].made = "" /\ self[a].fit = 0
                      \/ self[a].made = "_fit" /\ self[a].madeIn \in 1..nfit
               /\ a \notin MadeByInit(self.kind) \cup MadeByFit(self.kind) =>
                      self[a] = NoObject
               /\ self[a].fit \in 0..nfit
               /\ nfit = 0 => self[a].fit = 0 /\ self[a].made # "_fit"
    /\ InGenerate => \A i \in 1..Len(log) : log[i].fit \in 1..nfit

C2_Witness ==
    /\ Returned("fflows")
    /\ self.static_model.made = "__init__"
    /\ self.outcome_encoder.made = "__init__"
    /\ self.outcome_model.made = "_fit"
    /\ \A i \in 1..Len(log) : log[i].fit = 1

\* C3: no step of a _generate call, from its entry to its return or exception,
\* changes any attribute of the plugin.
C3_GenerateReadOnly == [][call'.op = "_generate" => self' = self]_vars

C3_Witness == Returned("timevae") /\ ngen = 2 /\ fitted = 1

\* frame has exactly the columns features, in that order, each holding values
\* generated in the last _generate call for the feature it is named after
HoldsFeatures(frame, comp, features) ==
    /\ frame.names = features
    /\ Len(frame.vals) = Len(features)
    /\ \A i \in 1..Len(features) :
           /\ frame.vals[i].comp = comp
           /\ frame.vals[i].feat = features[i]
           /\ frame.vals[i].gen = ngen

\* C4: in a sample returned by FourierFlowsPlugin._generate the static frame has
\* the training static features in their order, each column holding the values
\* generated for its feature; the temporal frames have the training temporal
\* features in order and the outcome frame the training outcome features in order.
C4_ColumnOrder ==
    Returned("fflows") =>
        /\ HoldsFeatures(ret.value[1], "static", trained.static)
        /\ ret.value[2].names = trained.temporal
        /\ loc.outcome.names = trained.outcome
        /\ trained.type = "time_series" => ret.value[4] = loc.outcome

C4_Witness ==
    /\ Returned("fflows")
    /\ trained.static = <<"age", "sex">>
    /\ trained.temporal = <<"hr", "bp">>
    /\ trained.outcome = <<"z", "y">>
    /\ nfit = 2

\* C5: the components of a tuple returned by _sample(count) of FourierFlowsPlugin
\* or TimeVAEPlugin all have count samples, and every temporal sequence has as
\* many time steps as its horizons have entries.
C5_LengthsPreserved ==
    (Returned("fflows") \/ Returned("timevae")) =>
        /\ \A k \in 1..Len(ret.value) : ret.value[k].n = call.count
        /\ Len(ret.value) >= 4
        /\ ret.value[2].steps = Len(ret.value[3].vals)

C5_Witness ==
    /\ Returned("fflows")
    /\ call.count = 2
    /\ trained.window = 2
    /\ Len(trained.static) = 2
    /\ Len(ret.value) = 5

\* the encodings found on the cells of some tables
Tags(tables) ==
    UNION {UNION {Range(tables[k].vals[i].rep) : i \in 1..Len(tables[k].vals)} :
              k \in 1..Len(tables)}

\* C6: within _fit every transform follows the fit of its encoder in the same
\* call, and every sub-model is fitted after the transforms that produced its
\* input; within _generate every decoding follows the sampling or prediction
\* of what it decodes, and a sample is returned only after the decoding.
C6_LinearPipeline ==
    /\ InFit =>
           /\ \A e \in EncoderNames : Precedes("fit", e, "transform", e)
           /\ \A i \in 1..Len(log) : log[i].op = "transform" => log[i].fit = nfit
           /\ Precedes("transform", "temporal_encoder", "fit", "temporal_model")
           /\ Precedes("transform", "outcome_encoder", "fit", "outcome_model")
           /\ \A i \in 1..Len(log) :
                  (log[i].op = "fit" /\ log[i].obj \in SubModelNames) =>
                      \A t \in Tags(log[i].args) :
                          \E j \in 1..(i - 1) :
                              Is(log[j], "transform", t.enc) /\ log[j].fit = t.fit
           /\ (ret.status = "ok" /\ self.kind \in {"fflows", "timevae"}) =>
                  Has("fit", "outcome_model")
           /\ (ret.status = "ok" /\ self.kind = "fflows") => Has("fit", "temporal_model")
    /\ InGenerate =>
           /\ Precedes("generate", "static_model", "inverse_transform", "temporal_encoder")
           /\ Precedes("sample", "temporal_model", "inverse_transform", "temporal_encoder")
           /\ Precedes("predict", "outcome_model", "inverse_transform", "outcome_encoder")
           /\ \A i \in 1..Len(log) :
                  log[i].op = "inverse_transform" =>
                      \A k \in 1..Len(log[i].args) :
                          /\ log[i].args[k].vals # <<>>
                          /\ \A c \in Range(log[i].args[k].vals) : c.gen = ngen
           /\ Returned("fflows") =>
                  /\ Has("inverse_transform", "temporal_encoder")
                  /\ Has("inverse_transform", "outcome_encoder")
           /\ Returned("timevae") => Has("inverse_transform", "outcome_encoder")

C6_Witness ==
    /\ ret.op = "_fit"
    /\ ret.status = "ok"
    /\ self.kind = "fflows"
    /\ nfit = 2
    /\ Len(log) = 7

\* the cells of component comp among vals all carry an encoding by encoder e
EncodedBy(vals, comp, e) ==
    \A c \in {x \in Range(vals) : x.comp = comp} : \E t \in Range(c.rep) : t.enc = e

\* the running call passed a non-empty k-th argument to e's inverse transform
DecodedBy(e, k) ==
    \E i \in 1..Len(log) :
        Is(log[i], "inverse_transform", e) /\ log[i].args[k].vals # <<>>

\* C7: in a FourierFlowsPlugin sample each component (temporal sequences,
\* temporal horizons, outcome) goes through an encoder's inverse transform if
\* and only if the data its generating sub-model was fitted on had gone
\* through that encoder's transform.
C7_EncodeDecodePaired ==
    Returned("fflows") =>
        /\ DecodedBy("temporal_encoder", 1) <=>
               EncodedBy(self.temporal_model.learned[1].vals, "temporal", "temporal_encoder")
        /\ DecodedBy("temporal_encoder", 2) <=>
               EncodedBy(self.static_model.learned[1].vals, "horizon", "temporal_encoder")
        /\ DecodedBy("outcome_encoder", 1) <=>
               EncodedBy(self.outcome_model.learned[4].vals, "outcome", "outcome_encoder")

\* the generated cells of arg are the training cells, in the same representation
SameRepresentation(arg, training) ==
    [i \in 1..Len(arg.vals) |-> [arg.vals[i] EXCEPT !.gen = 0]] = training.vals

\* C8: in every _sample call the outcome model predicts from the static
\* features, temporal sequences and horizons generated in that call, each in
\* the representation in which the outcome model was fitted on it.
C8_OutcomeFromOwnSample ==
    InGenerate =>
        \A i \in 1..Len(log) :
            log[i].op = "predict" =>
                \A k \in 1..3 :
                    /\ log[i].args[k].n = call.count
                    /\ \A c \in Range(log[i].args[k].vals) : c.gen = ngen
                    /\ SameRepresentation(log[i].args[k], self.outcome_model.learned[k])

\* C9: constructing SurVAEPlugin raises ValueError exactly when
\* dataloader_sampling_strategy is none of the three supported values, and then
\* no attribute has been set and no SurvivalPipeline created.
C9_ConstructorValidation ==
    (ret.op = "__init__" /\ self.kind = "survae") =>
        /\ ret.status = "ValueError" <=>
               call.args.dataloader_sampling_strategy \notin
                   {"none", "imbalanced_censoring", "imbalanced_time_censoring"}
        /\ ret.status = "ValueError" =>
               /\ DOMAIN self.cfg = {}
               /\ \A a \in ObjectNames : self[a] = NoObject
               /\ ~self.constructed
        /\ ret.status # "ValueError" =>
               /\ ret.status = "ok"
               /\ self.constructed
               /\ {"tte_strategy", "censoring_strategy", "uncensoring_model", "device"}
                      \subseteq DOMAIN self.cfg

C9_Witness ==
    /\ ret.op = "__init__"
    /\ ret.status = "ValueError"
    /\ self.kind = "survae"
    /\ call.args.dataloader_sampling_strategy = "imbalanced"

\* the data types the _fit of a plugin of this kind asserts
Declared(kind) ==
    IF kind = "survae" THEN {"survival_analysis"} ELSE {"time_series", "time_series_survival"}

\* C10: a _fit call on a loader whose type the plugin does not declare ends
\* with AssertionError at its first statement: no library call has been made
\* and every attribute of the plugin is as it was when _fit was called.
C10_FitTypeAssertion ==
    [][(pc \in {"survae._fit", "fflows._fit", "timevae._fit"}
          /\ call.X.type \notin Declared(self.kind))
        => /\ pc' = "idle"
           /\ ret'.status = "AssertionError"
           /\ self' = self
           /\ log' = <<>>
           /\ fitted' = fitted]_vars

C10_Witness ==
    /\ ret.op = "_fit"
    /\ ret.status = "AssertionError"
    /\ self.kind = "timevae"
    /\ fitted = 1
    /\ nfit = 2

\* the running call is at the return statement of _sample
AtSampleReturn == pc \in {"fflows.return", "timevae.return"}

\* the recorded data type is the type of the data the last completed _fit accepted
RecordedFromFitted == fitted > 0 /\ self.data_info = Info(trained)

C11_OtherType ==
    /\ ret.op = "_generate"
    /\ ret.status = "RuntimeError"
    /\ Has("inverse_transform", "outcome_encoder")
    /\ self.data_info.data_type = "generic"

\* a returned column holding, decoded, the values generated for T or for E
OutcomeColumn(column, role) ==
    /\ Len(column.vals) = 1
    /\ column.vals[1] = [Cell("outcome", role, 0) EXCEPT !.gen = ngen]

\* _fit has built the outcome frame: T is its first column and E its second
OutcomeFrameBuilt ==
    /\ loc.outcome.names = <<"time_to_event", "event">>
    /\ loc.outcome.vals = <<Cell("outcome", "T", 0), Cell("outcome", "E", 0)>>

\* a sample of time_series_survival data: the fourth element is the decoded
\* time-to-event column and the fifth the decoded event column
RolesKept ==
    /\ Len(ret.value) = 5
    /\ OutcomeColumn(ret.value[4], "T")
    /\ OutcomeColumn(ret.value[5], "E")

\* the names _fit gives the outcome columns are the recorded ones
RecordedAsFitted ==
    /\ self.data_info.time_to_event_column = "time_to_event"
    /\ self.data_info.event_column = "event"
    /\ {"time_to_event", "event"} \subseteq Range(self.data_info.outcome_features)

\* C12: for time_series_survival data _fit builds the outcome frame with T as
\* first and E as second column, and the fourth and fifth elements returned by
\* _sample are the decoded time-to-event and event columns, whatever outcome
\* feature names and time_to_event/event column names are recorded.
C12_RolesKept ==
    /\ (InFit /\ call.X.type = "time_series_survival" /\ loc.outcome # NoTable)
            => OutcomeFrameBuilt
    /\ ((Returned("fflows") \/ Returned("timevae"))
          /\ self.data_info.data_type = "time_series_survival")
            => RolesKept

\* C12 amended: the same, for samples of a plugin whose recorded
\* time_to_event_column and event_column are the names "time_to_event" and
\* "event" that _fit gives the outcome columns, both being among the recorded
\* outcome feature names (in any order).
C12_RolesKeptAsFitted ==
    /\ (InFit /\ call.X.type = "time_series_survival" /\ loc.outcome # NoTable)
            => OutcomeFrameBuilt
    /\ ((Returned("fflows") \/ Returned("timevae"))
          /\ self.data_info.data_type = "time_series_survival"
          /\ RecordedAsFitted)
            => RolesKept

\* a sample whose recorded outcome features list the event before the time
C12_Witness ==
    /\ Returned("fflows")
    /\ self.data_info.data_type = "time_series_survival"
    /\ self.data_info.outcome_features = <<"event", "time_to_event">>
    /\ RolesKept

\* the attribute h of the plugin was handed, under its name, to a sub-model or
\* encoder the plugin holds
Passed(h) ==
    \E m \in {"cov_model", "outcome_model", "outcome_encoder"} :
        /\ self[m].made # ""
        /\ h \in DOMAIN self[m].args
        /\ self[m].args[h] = self.cfg[h]

\* C13: every hyperparameter that hyperparameter_space declares (encoder_n_iter
\* among them) and the constructor call was given is stored on the plugin with
\* the given value, and once _fit has built the covariate model every declared
\* hyperparameter is an attribute whose value was passed to a sub-model.
C13_HyperparametersUsed ==
    /\ (self.kind = "timevae" /\ ret.op = "__init__" /\ ret.status = "ok") =>
            \A h \in hyperparameter_space \cap DOMAIN call.args :
                /\ h \in DOMAIN self.cfg
                /\ self.cfg[h] = call.args[h]
    /\ (self.kind = "timevae" /\ self.cov_model.made # "") =>
            \A h \in hyperparameter_space :
                /\ h \in DOMAIN self.cfg
                /\ Passed(h)

\* the same for the declared hyperparameters other than encoder_n_iter
C13_OtherHyperparametersUsed ==
    /\ (self.kind = "timevae" /\ ret.op = "__init__" /\ ret.status = "ok") =>
            \A h \in (hyperparameter_space \ {"encoder_n_iter"}) \cap DOMAIN call.args :
                /\ h \in DOMAIN self.cfg
                /\ self.cfg[h] = call.args[h]
    /\ (self.kind = "timevae" /\ self.cov_model.made # "") =>
            \A h \in hyperparameter_space \ {"encoder_n_iter"} :
                /\ h \in DOMAIN self.cfg
                /\ Passed(h)

\* a fitted TimeVAEPlugin that was constructed with encoder_n_iter = 5: neither
\* an attribute nor a sub-model argument carries the name
C13_Dropped ==
    /\ self.kind = "timevae"
    /\ fitted > 0
    /\ "encoder_n_iter" \notin DOMAIN self.cfg
    /\ \A m \in {"cov_model", "outcome_model", "outcome_encoder"} :
           "encoder_n_iter" \notin DOMAIN self[m].args

\* the first statement of each _generate
GenerateEntry == {"survae._generate", "fflows._generate", "timevae._generate"}

\* what an instance lacks on which no _fit has completed
Unfitted ==
    /\ self.kind = "survae" => self.model.made = ""
    /\ self.kind = "fflows" =>
           /\ ~self.static_columns.set
           /\ ~self.temporal_encoded_columns.set
           /\ ~self.outcome_encoded_columns.set
           /\ self.outcome_model.made = ""
           /\ self.static_model.fit = 0
    /\ self.kind = "timevae" =>
           /\ self.cov_model.made = ""
           /\ self.outcome_model.made = ""

\* C14: a _generate call returns data only if a _fit call on the instance
\* completed earlier; a _generate call with no earlier completed _fit finds the
\* model, column lists or sub-models missing, stops at its first statement and
\* ends with an exception, having called no sub-model and returning no data.
C14_GenerateNeedsFit ==
    /\ (ret.op = "_generate" /\ ret.status = "ok") =>
           /\ fitted > 0
           /\ ret.value # <<>>
    /\ (InGenerate /\ fitted = 0) =>
           /\ Unfitted
           /\ pc \in GenerateEntry \cup {"idle"}
           /\ log = <<>>
           /\ ret.value = <<>>
           /\ pc = "idle" =>
                 /\ ret.op = "_generate"
                 /\ ret.status \in {"AttributeError", "RuntimeError"}

\* a _generate call on a TimeVAEPlugin whose only _fit call was rejected has failed
C14_Witness ==
    /\ ret.op = "_generate"
    /\ ret.status = "AttributeError"
    /\ self.kind = "timevae"
    /\ nfit = 1
    /\ fitted = 0
====
